---- MODULE Spec2Model ----
(***************************************************************************)
(* BTC/Altcoin strategy analyzer (analyze_btc_altcoin_strategy.py).        *)
(*                                                                         *)
(* Units.  Prices and percentages read from the providers are kept in      *)
(* tenths (50000.0 is 500000, 48.5% is 485); thresholds are kept in tenths *)
(* of a percent (0.5 is 5, 2.0 is 20); timestamps are seconds.  A percent  *)
(* change is the exact rational num/den: the floating-point rounding of    *)
(* the division is not modelled.                                           *)
(***************************************************************************)
EXTENDS Integers, Sequences, FiniteSets, TLC

VARIABLES
    pc,           \* main: the statement about to run
    es,           \* execute_script: the frame of the running call
    runs,         \* history: every subprocess.run so far, <<script, outcome>>
    outputs,      \* main: btc_daily_output, btc_dominance_output, btc_weekly_output
    data,         \* main: btc_daily_data, btc_dominance_data, btc_weekly_data
    signals,      \* main: the (trend, change) pairs and the recommendation
    exc,          \* main: the exception in flight
    stdout,       \* lines printed
    stderr,       \* what the interpreter writes for an uncaught exception
    exit_status,  \* process exit status
    call,         \* direct call of one function: its name and arguments
    ret           \* direct call of one function: what it returned or raised

vars == <<pc, es, runs, outputs, data, signals, exc, stdout, stderr, exit_status, call, ret>>

mainVars == <<pc, es, runs, outputs, data, signals, exc, stdout, stderr, exit_status>>

None == [kind |-> "None"]

-----------------------------------------------------------------------------
(* Enumerations.  Trend and HWC are two Enum classes with the same labels; *)
(* members of different Enum classes never compare equal.                  *)

Labels == {"Bullish", "Bearish", "Neutral"}

Trend_BULLISH == [enum |-> "Trend", value |-> "Bullish"]
Trend_BEARISH == [enum |-> "Trend", value |-> "Bearish"]
Trend_NEUTRAL == [enum |-> "Trend", value |-> "Neutral"]

Trend == {Trend_BULLISH, Trend_BEARISH, Trend_NEUTRAL}

HWC_BULLISH == [enum |-> "HWC", value |-> "Bullish"]
HWC_BEARISH == [enum |-> "HWC", value |-> "Bearish"]
HWC_NEUTRAL == [enum |-> "HWC", value |-> "Neutral"]

HWC == {HWC_BULLISH, HWC_BEARISH, HWC_NEUTRAL}

-----------------------------------------------------------------------------
(* The decision matrix.                                                    *)

DECISION_MATRIX_missing ==
    (<<Trend_BULLISH, Trend_BULLISH, HWC_BULLISH>> :> "Strong BTC buy (Low risk)") @@
    (<<Trend_BULLISH, Trend_BULLISH, HWC_NEUTRAL>> :> "Moderate BTC buy (Medium risk)") @@
    (<<Trend_BULLISH, Trend_BULLISH, HWC_BEARISH>> :> "Avoid BTC (High risk)") @@
    (<<Trend_BULLISH, Trend_BEARISH, HWC_BULLISH>> :> "Risky altcoin buy (Requires confirmation)") @@
    (<<Trend_BULLISH, Trend_BEARISH, HWC_NEUTRAL>> :> "Altcoin accumulation (Medium risk)") @@
    (<<Trend_BULLISH, Trend_BEARISH, HWC_BEARISH>> :> "Altcoin sell (High risk)") @@
    (<<Trend_BULLISH, Trend_NEUTRAL, HWC_BULLISH>> :> "Strong BTC buy (Medium risk)") @@
    (<<Trend_BULLISH, Trend_NEUTRAL, HWC_NEUTRAL>> :> "BTC accumulation (Medium risk)") @@
    (<<Trend_BULLISH, Trend_NEUTRAL, HWC_BEARISH>> :> "BTC sell (High risk)") @@
    (<<Trend_BEARISH, Trend_BULLISH, HWC_BULLISH>> :> "BTC short (Medium risk)") @@
    (<<Trend_BEARISH, Trend_BULLISH, HWC_NEUTRAL>> :> "BTC short (Low risk)") @@
    (<<Trend_BEARISH, Trend_BULLISH, HWC_BEARISH>> :> "Strong BTC short (High risk)") @@
    (<<Trend_BEARISH, Trend_BEARISH, HWC_BULLISH>> :> "Altcoin buy (Low risk)") @@
    (<<Trend_BEARISH, Trend_BEARISH, HWC_NEUTRAL>> :> "Altcoin accumulation (Low risk)") @@
    (<<Trend_BEARISH, Trend_BEARISH, HWC_BEARISH>> :> "Strong altcoin buy (Medium risk)") @@
    (<<Trend_BEARISH, Trend_NEUTRAL, HWC_BULLISH>> :> "BTC short (High risk)") @@
    (<<Trend_BEARISH, Trend_NEUTRAL, HWC_NEUTRAL>> :> "Market neutral (Low risk)") @@
    (<<Trend_BEARISH, Trend_NEUTRAL, HWC_BEARISH>> :> "Altcoin buy (Medium risk)") @@
    (<<Trend_NEUTRAL, Trend_BULLISH, HWC_BULLISH>> :> "BTC accumulation (Low risk)") @@
    (<<Trend_NEUTRAL, Trend_BULLISH, HWC_NEUTRAL>> :> "Market watch (Low risk)") @@
    (<<Trend_NEUTRAL, Trend_BULLISH, HWC_BEARISH>> :> "Altcoin sell (Medium risk)") @@
    (<<Trend_NEUTRAL, Trend_BEARISH, HWC_BULLISH>> :> "Altcoin accumulation (Low risk)") @@
    (<<Trend_NEUTRAL, Trend_BEARISH, HWC_NEUTRAL>> :> "Market watch (Low risk)") @@
    (<<Trend_NEUTRAL, Trend_BEARISH, HWC_BEARISH>> :> "BTC buy (Medium risk)") @@
    (<<Trend_NEUTRAL, Trend_NEUTRAL, HWC_BULLISH>> :> "Market indecisive (Low risk)") @@
    (<<Trend_NEUTRAL, Trend_NEUTRAL, HWC_BEARISH>> :> "Market indecisive (Low risk)")

DECISION_MATRIX ==
    (<<Trend_BULLISH, Trend_BULLISH, HWC_BULLISH>> :> "Strong BTC buy (Low risk)") @@
    (<<Trend_BULLISH, Trend_BULLISH, HWC_NEUTRAL>> :> "Moderate BTC buy (Medium risk)") @@
    (<<Trend_BULLISH, Trend_BULLISH, HWC_BEARISH>> :> "Avoid BTC (High risk)") @@
    (<<Trend_BULLISH, Trend_BEARISH, HWC_BULLISH>> :> "Risky altcoin buy (Requires confirmation)") @@
    (<<Trend_BULLISH, Trend_BEARISH, HWC_NEUTRAL>> :> "Altcoin accumulation (Medium risk)") @@
    (<<Trend_BULLISH, Trend_BEARISH, HWC_BEARISH>> :> "Altcoin sell (High risk)") @@
    (<<Trend_BULLISH, Trend_NEUTRAL, HWC_BULLISH>> :> "Strong BTC buy (Medium risk)") @@
    (<<Trend_BULLISH, Trend_NEUTRAL, HWC_NEUTRAL>> :> "BTC accumulation (Medium risk)") @@
    (<<Trend_BULLISH, Trend_NEUTRAL, HWC_BEARISH>> :> "BTC sell (High risk)") @@
    (<<Trend_BEARISH, Trend_BULLISH, HWC_BULLISH>> :> "BTC short (Medium risk)") @@
    (<<Trend_BEARISH, Trend_BULLISH, HWC_NEUTRAL>> :> "BTC short (Low risk)") @@
    (<<Trend_BEARISH, Trend_BULLISH, HWC_BEARISH>> :> "Strong BTC short (High risk)") @@
    (<<Trend_BEARISH, Trend_BEARISH, HWC_BULLISH>> :> "Altcoin buy (Low risk)") @@
    (<<Trend_BEARISH, Trend_BEARISH, HWC_NEUTRAL>> :> "Altcoin accumulation (Low risk)") @@
    (<<Trend_BEARISH, Trend_BEARISH, HWC_BEARISH>> :> "Strong altcoin buy (Medium risk)") @@
    (<<Trend_BEARISH, Trend_NEUTRAL, HWC_BULLISH>> :> "BTC short (High risk)") @@
    (<<Trend_BEARISH, Trend_NEUTRAL, HWC_NEUTRAL>> :> "Market neutral (Low risk)") @@
    (<<Trend_BEARISH, Trend_NEUTRAL, HWC_BEARISH>> :> "Altcoin buy (Medium risk)") @@
    (<<Trend_NEUTRAL, Trend_BULLISH, HWC_BULLISH>> :> "BTC accumulation (Low risk)") @@
    (<<Trend_NEUTRAL, Trend_BULLISH, HWC_NEUTRAL>> :> "Market watch (Low risk)") @@
    (<<Trend_NEUTRAL, Trend_BULLISH, HWC_BEARISH>> :> "Altcoin sell (Medium risk)") @@
    (<<Trend_NEUTRAL, Trend_BEARISH, HWC_BULLISH>> :> "Altcoin accumulation (Low risk)") @@
    (<<Trend_NEUTRAL, Trend_BEARISH, HWC_NEUTRAL>> :> "Market watch (Low risk)") @@
    (<<Trend_NEUTRAL, Trend_BEARISH, HWC_BEARISH>> :> "BTC buy (Medium risk)") @@
    (<<Trend_NEUTRAL, Trend_NEUTRAL, HWC_BULLISH>> :> "Market indecisive (Low risk)") @@
    (<<Trend_NEUTRAL, Trend_NEUTRAL, HWC_NEUTRAL>> :> "MARKET_INDECISIVE") @@
    (<<Trend_NEUTRAL, Trend_NEUTRAL, HWC_BEARISH>> :> "Market indecisive (Low risk)")

\* main's lookup: DECISION_MATRIX.get(decision_key, "MARKET_INDECISIVE"), with
\* whether the key was found.
lookup(decision_key) ==
    IF decision_key \in DOMAIN DECISION_MATRIX
    THEN [found |-> TRUE, recommendation |-> DECISION_MATRIX[decision_key]]
    ELSE [found |-> FALSE, recommendation |-> "MARKET_INDECISIVE"]

-----------------------------------------------------------------------------
(* Risk and confidence.                                                    *)

\* A slip: the weekly status compared with members of Trend, which no member
\* of HWC equals.
get_risk_context_trend_members(btc_trend, btc_d_trend, hwc_status) ==
    IF btc_trend = Trend_BULLISH /\ btc_d_trend = Trend_BULLISH /\ hwc_status = Trend_BULLISH
    THEN "Low risk - All indicators aligned bullish"
    ELSE IF btc_trend = Trend_BULLISH /\ btc_d_trend = Trend_BEARISH /\ hwc_status = Trend_BULLISH
    THEN "Requires HWC confirmation - monitor for weekly trend reversal"
    ELSE IF btc_trend = Trend_BULLISH /\ btc_d_trend = Trend_BEARISH /\ hwc_status = Trend_BEARISH
    THEN "High risk - Altcoin market weakness"
    ELSE IF btc_trend = Trend_BEARISH /\ btc_d_trend = Trend_BULLISH /\ hwc_status = Trend_BULLISH
    THEN "Medium risk - BTC weakness with dominance strength"
    ELSE IF btc_trend = Trend_BEARISH /\ btc_d_trend = Trend_BULLISH /\ hwc_status = Trend_BEARISH
    THEN "High risk - Strong bearish momentum"
    ELSE "Standard market conditions - monitor closely"

get_risk_context(btc_trend, btc_d_trend, hwc_status) ==
    IF btc_trend = Trend_BULLISH /\ btc_d_trend = Trend_BULLISH /\ hwc_status = HWC_BULLISH
    THEN "Low risk - All indicators aligned bullish"
    ELSE IF btc_trend = Trend_BULLISH /\ btc_d_trend = Trend_BEARISH /\ hwc_status = HWC_BULLISH
    THEN "Requires HWC confirmation - monitor for weekly trend reversal"
    ELSE IF btc_trend = Trend_BULLISH /\ btc_d_trend = Trend_BEARISH /\ hwc_status = HWC_BEARISH
    THEN "High risk - Altcoin market weakness"
    ELSE IF btc_trend = Trend_BEARISH /\ btc_d_trend = Trend_BULLISH /\ hwc_status = HWC_BULLISH
    THEN "Medium risk - BTC weakness with dominance strength"
    ELSE IF btc_trend = Trend_BEARISH /\ btc_d_trend = Trend_BULLISH /\ hwc_status = HWC_BEARISH
    THEN "High risk - Strong bearish momentum"
    ELSE "Standard market conditions - monitor closely"

Max(a, b) == IF a >= b THEN a ELSE b

Min(a, b) == IF a <= b THEN a ELSE b

\* A slip that charges the Neutral penalty once per Neutral state and drops the clamp.
get_confidence_score_unclamped(btc_trend, btc_d_trend, hwc_status) ==
    LET aligned == IF btc_trend = btc_d_trend /\ btc_d_trend = hwc_status THEN 20
                   ELSE IF btc_trend = btc_d_trend \/ btc_trend = hwc_status
                           \/ btc_d_trend = hwc_status THEN 10
                   ELSE 0
        n == Cardinality({i \in 1..3 :
                 <<btc_trend, btc_d_trend, hwc_status>>[i].value = "Neutral"})
    IN  65 + aligned - 15 * n

get_confidence_score(btc_trend, btc_d_trend, hwc_status) ==
    LET base == 65
        aligned == IF btc_trend = btc_d_trend /\ btc_d_trend = hwc_status
                   THEN base + 20
                   ELSE IF btc_trend = btc_d_trend \/ btc_trend = hwc_status
                           \/ btc_d_trend = hwc_status
                   THEN base + 10
                   ELSE base
        confidence == IF Trend_NEUTRAL \in {btc_trend, btc_d_trend} \/ hwc_status = HWC_NEUTRAL
                      THEN aligned - 15
                      ELSE aligned
    IN  Max(50, Min(95, confidence))

-----------------------------------------------------------------------------
(* What a call gives back: a value, or an exception with its message.  A   *)
(* message is the sequence of its parts; `tag in str(e)` looks for a part. *)

Return(v) == [kind |-> "return", value |-> v]

Raise(cls, msg) == [kind |-> "raise", exception |-> cls, message |-> msg, detail |-> 0]

\* An exception whose message also formats a number.
RaiseWith(cls, msg, n) == [kind |-> "raise", exception |-> cls, message |-> msg, detail |-> n]

Contains(msg, tag) == \E i \in 1..Len(msg) : msg[i] = tag

-----------------------------------------------------------------------------
(* Provider text.  A line is the format it matches ("ohlc", "dom" or       *)
(* "other") and its three captured tokens; a token is the text of a        *)
(* timestamp or number, valid when strptime / float accept it.  A line may *)
(* carry more records of its format after the first, in `more`.            *)

Tok(v) == [valid |-> TRUE, v |-> v]

BadTok == [valid |-> FALSE, v |-> 0]

Line(fmt, ts, open, close) ==
    [fmt |-> fmt, ts |-> ts, open |-> open, close |-> close, more |-> <<>>]

\* The three groups of one match.
Groups(ts, open, close) == [ts |-> ts, open |-> open, close |-> close]

Point(ts, open, close) == [ts |-> ts, open |-> open, close |-> close]

MIN_POINTS == 7

SECONDS_PER_HOUR == 3600

\* The matches found in one line.  The OHLC pattern matches every record of
\* the line.  The dominance pattern has a greedy `.*` between its Open and
\* Close groups, which does not cross a newline: it matches once per line,
\* from the first record's timestamp and Open to the last record's Close.
matches_in(fmt, l) ==
    IF l.fmt # fmt THEN <<>>
    ELSE IF fmt = "ohlc" THEN <<Groups(l.ts, l.open, l.close)>> \o l.more
    ELSE IF l.more = <<>> THEN <<Groups(l.ts, l.open, l.close)>>
    ELSE <<Groups(l.ts, l.open, l.more[Len(l.more)].close)>>

\* re.findall(pattern, output): the matches of the whole text, left to right.
RECURSIVE findall(_, _)
findall(fmt, output) ==
    IF Len(output) = 0 THEN <<>>
    ELSE matches_in(fmt, Head(output)) \o findall(fmt, Tail(output))

\* The conversion loop of both parsers: strptime, float(open), float(close) per match.
convert(matches) ==
    LET bad(i) == ~matches[i].ts.valid \/ ~matches[i].open.valid \/ ~matches[i].close.valid
        firstBad == IF \E i \in 1..Len(matches) : bad(i)
                    THEN CHOOSE i \in 1..Len(matches) :
                            bad(i) /\ \A j \in 1..(i - 1) : ~bad(j)
                    ELSE 0
    IN  IF firstBad = 0
        THEN Return([i \in 1..Len(matches) |->
                        Point(matches[i].ts.v, matches[i].open.v, matches[i].close.v)])
        ELSE IF ~matches[firstBad].ts.valid
        THEN Raise("ValueError", <<"time data does not match format">>)
        ELSE Raise("ValueError", <<"could not convert string to float">>)

parse_btc_data(output) ==
    LET matches == findall("ohlc", output)
    IN  IF Len(matches) < MIN_POINTS
        THEN Raise("ValueError",
                   <<"INCOMPLETE_DATA", ": Less than 7 data points found in BTC data">>)
        ELSE convert(matches)

parse_btc_dominance(output) ==
    LET matches == findall("dom", output)
    IN  IF Len(matches) < MIN_POINTS
        THEN Raise("ValueError",
                   <<"INCOMPLETE_DATA", ": Less than 7 data points found in BTC dominance data">>)
        ELSE convert(matches)

-----------------------------------------------------------------------------
(* Continuity validation.                                                  *)

DEFAULT_MAX_GAP_HOURS == 1

\* A slip: the comparison made inclusive.
exceeds_inclusive(time_diff, max_gap_hours) == time_diff >= max_gap_hours * SECONDS_PER_HOUR

exceeds(time_diff, max_gap_hours) == time_diff > max_gap_hours * SECONDS_PER_HOUR

validate_timestamp_continuity(series, max_gap_hours) ==
    LET diff(i) == series[i].ts - series[i - 1].ts
        over == {i \in 2..Len(series) : exceeds(diff(i), max_gap_hours)}
    IN  IF Len(series) < 2
        THEN Return(None)
        ELSE IF over # {}
        THEN LET i == CHOOSE k \in over : \A j \in over : k <= j
             IN  RaiseWith("ValueError",
                           <<"TIMESTAMP_DISCONTINUITY", ": Gap of h between entries">>, diff(i))
        ELSE Return(None)

-----------------------------------------------------------------------------
(* Trend classification.  Thresholds are in tenths of a percent.           *)

TREND_BULLISH_THRESHOLD == 5

TREND_BEARISH_THRESHOLD == -5

\* A slip: the weekly default copied from calculate_trend.
HWC_BULLISH_THRESHOLD_copied == TREND_BULLISH_THRESHOLD

HWC_BULLISH_THRESHOLD == 20

HWC_BEARISH_THRESHOLD == -20

\* ((last_close - first_open) / first_open) * 100 as the rational num/den.
percentage_change(first_open, last_close) ==
    [num |-> (last_close - first_open) * 100, den |-> first_open]

\* change > threshold and change < threshold, the threshold in tenths.
GreaterThan(change, threshold) ==
    IF change.den > 0 THEN change.num * 10 > threshold * change.den
                      ELSE change.num * 10 < threshold * change.den

LessThan(change, threshold) ==
    IF change.den > 0 THEN change.num * 10 < threshold * change.den
                      ELSE change.num * 10 > threshold * change.den

\* A slip: the comparisons made inclusive.
classify_inclusive(change, bullish_threshold, bearish_threshold) ==
    IF ~LessThan(change, bullish_threshold) THEN "Bullish"
    ELSE IF ~GreaterThan(change, bearish_threshold) THEN "Bearish"
    ELSE "Neutral"

\* The if / elif / else of both classifiers.
classify(change, bullish_threshold, bearish_threshold) ==
    IF GreaterThan(change, bullish_threshold) THEN "Bullish"
    ELSE IF LessThan(change, bearish_threshold) THEN "Bearish"
    ELSE "Neutral"

too_short(series) == Len(series) < MIN_POINTS

\* A slip: data[-6] for data[-7].
calculate_trend_last_six(series, bullish_threshold, bearish_threshold) ==
    IF too_short(series)
    THEN Raise("ValueError",
               <<"INCOMPLETE_DATA", ": Need at least 7 data points for trend calculation">>)
    ELSE LET first_open == series[Len(series) - 5].open
             last_close == series[Len(series)].close
             change == percentage_change(first_open, last_close)
         IN  IF first_open = 0
             THEN Raise("ZeroDivisionError", <<"float division by zero">>)
             ELSE Return([state |-> [enum |-> "Trend",
                                     value |-> classify(change, bullish_threshold,
                                                        bearish_threshold)],
                          change |-> change])

calculate_trend(series, bullish_threshold, bearish_threshold) ==
    IF too_short(series)
    THEN Raise("ValueError",
               <<"INCOMPLETE_DATA", ": Need at least 7 data points for trend calculation">>)
    ELSE LET first_open == series[Len(series) - 6].open
             last_close == series[Len(series)].close
             change == percentage_change(first_open, last_close)
         IN  IF first_open = 0
             THEN Raise("ZeroDivisionError", <<"float division by zero">>)
             ELSE Return([state |-> [enum |-> "Trend",
                                     value |-> classify(change, bullish_threshold,
                                                        bearish_threshold)],
                          change |-> change])

\* A slip: the length check of the weekly classifier only refuses an empty series.
calculate_hwc_trend_nonempty(series, bullish_threshold, bearish_threshold) ==
    IF Len(series) < 1
    THEN Raise("ValueError",
               <<"INCOMPLETE_DATA", ": Need at least 7 weekly data points for HWC calculation">>)
    ELSE LET first_open == series[1].open
             last_close == series[Len(series)].close
             change == percentage_change(first_open, last_close)
         IN  IF first_open = 0
             THEN Raise("ZeroDivisionError", <<"float division by zero">>)
             ELSE Return([state |-> [enum |-> "HWC",
                                     value |-> classify(change, bullish_threshold,
                                                        bearish_threshold)],
                          change |-> change])

calculate_hwc_trend(series, bullish_threshold, bearish_threshold) ==
    IF too_short(series)
    THEN Raise("ValueError",
               <<"INCOMPLETE_DATA", ": Need at least 7 weekly data points for HWC calculation">>)
    ELSE LET first_open == series[1].open
             last_close == series[Len(series)].close
             change == percentage_change(first_open, last_close)
         IN  IF first_open = 0
             THEN Raise("ZeroDivisionError", <<"float division by zero">>)
             ELSE Return([state |-> [enum |-> "HWC",
                                     value |-> classify(change, bullish_threshold,
                                                        bearish_threshold)],
                          change |-> change])

-----------------------------------------------------------------------------
(* Lines 254-262 of main: the three classifications with main's arguments, *)
(* then the lookup.  The first call that raises ends the block.            *)

decide(btc_daily_data, btc_dominance_data, btc_weekly_data) ==
    LET btc == calculate_trend(btc_daily_data,
                               TREND_BULLISH_THRESHOLD, TREND_BEARISH_THRESHOLD)
        btc_d == calculate_trend(btc_dominance_data,
                                 TREND_BULLISH_THRESHOLD, TREND_BEARISH_THRESHOLD)
        hwc == calculate_hwc_trend(btc_weekly_data,
                                   HWC_BULLISH_THRESHOLD, HWC_BEARISH_THRESHOLD)
    IN  IF btc.kind = "raise" THEN btc
        ELSE IF btc_d.kind = "raise" THEN btc_d
        ELSE IF hwc.kind = "raise" THEN hwc
        ELSE LET decision_key == <<btc.value.state, btc_d.value.state, hwc.value.state>>
             IN  Return([btc_trend |-> btc.value.state, btc_change |-> btc.value.change,
                         btc_d_trend |-> btc_d.value.state,
                         btc_d_change |-> btc_d.value.change,
                         hwc_status |-> hwc.value.state, hwc_change |-> hwc.value.change,
                         found |-> lookup(decision_key).found,
                         recommendation |-> lookup(decision_key).recommendation])

-----------------------------------------------------------------------------
(* Direct calls of one function: Init draws the call, the action runs it.  *)

NoSignals == [decided |-> FALSE]

At(stage, k) == [stage |-> stage, k |-> k]

NoMainState ==
    /\ runs = <<>>
    /\ outputs = [daily |-> <<>>, dominance |-> <<>>, weekly |-> <<>>]
    /\ data = [daily |-> <<>>, dominance |-> <<>>, weekly |-> <<>>]
    /\ signals = NoSignals
    /\ exc = None
    /\ stdout = <<>>
    /\ stderr = <<>>
    /\ exit_status = -1

MainIdle == pc = At("unit", 0) /\ es = None /\ NoMainState

Pending == ret = None

Called(fn) == call.fn = fn /\ ret # None

DecisionKeys == Trend \X Trend \X HWC

AnnotateCalls ==
    {[fn |-> f, args |-> k] :
        f \in {"lookup", "get_confidence_score", "get_risk_context"}, k \in DecisionKeys}

CallLookup ==
    /\ call.fn = "lookup" /\ Pending
    /\ ret' = Return(lookup(call.args))
    /\ UNCHANGED <<mainVars, call>>

CallGetConfidenceScore ==
    /\ call.fn = "get_confidence_score" /\ Pending
    /\ ret' = Return(get_confidence_score(call.args[1], call.args[2], call.args[3]))
    /\ UNCHANGED <<mainVars, call>>

CallGetRiskContext ==
    /\ call.fn = "get_risk_context" /\ Pending
    /\ ret' = Return(get_risk_context(call.args[1], call.args[2], call.args[3]))
    /\ UNCHANGED <<mainVars, call>>

InitAnnotate == MainIdle /\ call \in AnnotateCalls /\ ret = None

NextAnnotate == CallLookup \/ CallGetConfidenceScore \/ CallGetRiskContext

SpecAnnotate == InitAnnotate /\ [][NextAnnotate]_vars

-----------------------------------------------------------------------------
(* The sample texts of test_analyzer.  Second 0 is 2025-08-22T12:00:00Z.   *)

DAY == 86400

sample_btc_daily ==
    [i \in 1..8 |-> Line("ohlc", Tok(7 * DAY + SECONDS_PER_HOUR * (i - 1)),
                         Tok(500000 + 1000 * (i - 1)), Tok(500000 + 1000 * i))]

sample_btc_dominance ==
    LET open == <<485, 488, 490, 493, 496, 498, 500, 503>>
        close == <<488, 490, 493, 496, 498, 500, 503, 505>>
    IN  [i \in 1..8 |-> Line("dom", Tok(7 * DAY + SECONDS_PER_HOUR * (i - 1)),
                             Tok(open[i]), Tok(close[i]))]

sample_btc_weekly ==
    [i \in 1..8 |-> Line("ohlc", Tok(DAY * (i - 1)),
                         Tok(480000 + 1000 * (i - 1)), Tok(480000 + 1000 * i))]

-----------------------------------------------------------------------------
(* Input series for the direct calls.                                      *)

MaxLen == 8

MaxTsLen == 7

\* n points `gap` seconds apart whose open moves by `step` per point.
Ramp(n, t0, gap, o0, step) ==
    [i \in 1..n |-> Point(t0 + gap * (i - 1), o0 + step * (i - 1), o0 + step * i)]

\* (open, close) of a point: 200 -> 201 is +0.5%, 400 -> 398 is -0.5%,
\* 200 -> 204 is +2.0%; an open of 0 cannot be divided by.
Prices == {<<200, 201>>, <<400, 398>>, <<0, 204>>}

PriceSeriesOf(n, f) == [i \in 1..n |-> Point(SECONDS_PER_HOUR * (i - 1), f[i][1], f[i][2])]

\* (bullish, bearish) in tenths of a percent; the last pair is inverted.
ThresholdPairs == {<<5, -5>>, <<20, -20>>, <<2, -2>>, <<-5, 10>>}

\* Seconds between consecutive points: around the 1 h and the 24 h ceiling,
\* and one step back in time.
Gaps == {-3600, 3600, 3601, 86400, 86401}

RECURSIVE SumTo(_, _)
SumTo(g, i) == IF i = 0 THEN 0 ELSE g[i] + SumTo(g, i - 1)

TimeSeriesOf(n, g) ==
    [i \in 1..n |-> Point(SumTo(g, i - 1), 1000 + 10 * (i - 1), 1000 + 10 * i)]

MaxGapHours == {DEFAULT_MAX_GAP_HOURS, 24}

HourlySeries == {Ramp(n, 0, SECONDS_PER_HOUR, 1000, d) : n \in 0..(MaxTsLen + 1), d \in {-10, 0, 10}}

\* The parsed samples, and a falling, a short and a flat series.
ScenarioSeries ==
    {parse_btc_data(sample_btc_daily).value,
     parse_btc_dominance(sample_btc_dominance).value,
     parse_btc_data(sample_btc_weekly).value,
     Ramp(7, 0, SECONDS_PER_HOUR, 1000, -10),
     Ramp(6, 0, SECONDS_PER_HOUR, 1000, 10),
     Ramp(9, 0, SECONDS_PER_HOUR, 1000, 0)}

Classifiers == {"calculate_trend", "calculate_hwc_trend"}

CallCalculateTrend ==
    /\ call.fn = "calculate_trend" /\ Pending
    /\ ret' = calculate_trend(call.args[1], call.args[2], call.args[3])
    /\ UNCHANGED <<mainVars, call>>

CallCalculateHwcTrend ==
    /\ call.fn = "calculate_hwc_trend" /\ Pending
    /\ ret' = calculate_hwc_trend(call.args[1], call.args[2], call.args[3])
    /\ UNCHANGED <<mainVars, call>>

CallDecide ==
    /\ call.fn = "decide" /\ Pending
    /\ ret' = decide(call.args[1], call.args[2], call.args[3])
    /\ UNCHANGED <<mainVars, call>>

CallValidateTimestampContinuity ==
    /\ call.fn = "validate_timestamp_continuity" /\ Pending
    /\ ret' = validate_timestamp_continuity(call.args[1], call.args[2])
    /\ UNCHANGED <<mainVars, call>>

InitClassify ==
    /\ MainIdle
    /\ ret = None
    /\ \/ \E f \in Classifiers, n \in 0..MaxLen, t \in ThresholdPairs :
            \E p \in [1..n -> Prices] :
                call = [fn |-> f, args |-> <<PriceSeriesOf(n, p), t[1], t[2]>>]
       \/ \E a \in ScenarioSeries, b \in ScenarioSeries, c \in ScenarioSeries :
            call = [fn |-> "decide", args |-> <<a, b, c>>]

NextClassify == CallCalculateTrend \/ CallCalculateHwcTrend \/ CallDecide

SpecClassify == InitClassify /\ [][NextClassify]_vars

InitValidate ==
    /\ MainIdle
    /\ ret = None
    /\ \/ \E n \in 0..MaxTsLen, h \in MaxGapHours :
            \E g \in [1..(n - 1) -> Gaps] :
                call = [fn |-> "validate_timestamp_continuity",
                        args |-> <<TimeSeriesOf(n, g), h>>]
       \/ \E s \in HourlySeries :
            \/ call = [fn |-> "calculate_trend",
                       args |-> <<s, TREND_BULLISH_THRESHOLD, TREND_BEARISH_THRESHOLD>>]
            \/ call = [fn |-> "calculate_hwc_trend",
                       args |-> <<s, HWC_BULLISH_THRESHOLD, HWC_BEARISH_THRESHOLD>>]

NextValidate ==
    CallValidateTimestampContinuity \/ CallCalculateTrend \/ CallCalculateHwcTrend

SpecValidate == InitValidate /\ [][NextValidate]_vars

-----------------------------------------------------------------------------
(* execute_script: one action per pass of the while loop, by what          *)
(* subprocess.run did.                                                     *)

DEFAULT_MAX_ATTEMPTS == 2

MaxAttempts == 3

Scripts == <<"get_btc_candles_daily.py", "get_btc_dominance.py", "get_btc_candles_weekly.py">>

\* result.stderr of a run that exits non-zero: empty (the providers print their
\* errors on stdout) or an interpreter traceback.
Stderrs == {[kind |-> "stderr", text |-> ""],
            [kind |-> "stderr", text |-> "Traceback (most recent call last):"]}

TimedOut(script_name) == [kind |-> "timeout", text |-> script_name]

LaunchErrors == {[kind |-> "exception", text |-> "[Errno 12] Cannot allocate memory"]}

Frame(script_name, max_attempts) ==
    [script_name |-> script_name, max_attempts |-> max_attempts, attempts |-> 0,
     last_error |-> None, state |-> "loop", result |-> None]

InLoop == es # None /\ es.state = "loop" /\ es.attempts < es.max_attempts

\* A slip: only the first error is kept.
set_last_error_first(last_error, error) == IF last_error = None THEN error ELSE last_error

\* last_error = ... in the else branch and in both except clauses.
set_last_error(last_error, error) == error

Failed(error) ==
    /\ es' = [es EXCEPT !.last_error = set_last_error(es.last_error, error),
                        !.attempts = es.attempts + 1]
    /\ runs' = Append(runs, [script_name |-> es.script_name, ok |-> FALSE, error |-> error,
                             stdout |-> <<>>])

\* returncode == 0: return result.stdout.
RunReturnsZeroWith(output) ==
    /\ es' = [es EXCEPT !.state = "returned", !.result = output]
    /\ runs' = Append(runs, [script_name |-> es.script_name, ok |-> TRUE, error |-> None,
                             stdout |-> output])
    /\ UNCHANGED <<pc, outputs, data, signals, exc, stdout, stderr, exit_status, call, ret>>

RunReturnsNonZero ==
    /\ InLoop
    /\ \E e \in Stderrs : Failed(e)
    /\ UNCHANGED <<pc, outputs, data, signals, exc, stdout, stderr, exit_status, call, ret>>

RunTimesOut ==
    /\ InLoop
    /\ Failed(TimedOut(es.script_name))
    /\ UNCHANGED <<pc, outputs, data, signals, exc, stdout, stderr, exit_status, call, ret>>

RunRaises ==
    /\ InLoop
    /\ \E e \in LaunchErrors : Failed(e)
    /\ UNCHANGED <<pc, outputs, data, signals, exc, stdout, stderr, exit_status, call, ret>>

\* The while condition fails: raise RuntimeError(... {last_error}).
AttemptsExhausted ==
    /\ es # None /\ es.state = "loop" /\ es.attempts >= es.max_attempts
    /\ es' = [es EXCEPT !.state = "raised",
                        !.result = [kind |-> "raise", exception |-> "RuntimeError",
                                    message |-> <<"Failed to execute", es.script_name>>,
                                    detail |-> es.max_attempts,
                                    last_error |-> es.last_error]]
    /\ UNCHANGED <<pc, runs, outputs, data, signals, exc, stdout, stderr, exit_status,
                   call, ret>>

-----------------------------------------------------------------------------
(* What the three provider scripts may print on a zero exit.               *)

TextOf(fmt, series) ==
    [i \in 1..Len(series) |->
        Line(fmt, Tok(series[i].ts), Tok(series[i].open), Tok(series[i].close))]

\* A line neither pattern matches.
Noise == Line("other", BadTok, BadTok, BadTok)

Hourly(n, o0, step) == Ramp(n, 7 * DAY, SECONDS_PER_HOUR, o0, step)

\* Hourly points with one two-hour gap after the fourth.
Gapped(n, o0, step) ==
    [i \in 1..n |-> Point(7 * DAY + SECONDS_PER_HOUR * (IF i > 4 THEN i ELSE i - 1),
                          o0 + step * (i - 1), o0 + step * i)]

\* Hourly points whose clock steps back two hours after the third: no gap
\* between neighbours is longer than an hour, one is negative.
Rewound(n, o0, step) ==
    [i \in 1..n |->
        Point(7 * DAY + SECONDS_PER_HOUR * (IF i > 3 THEN i - 3 ELSE i - 1),
              o0 + step * (i - 1), o0 + step * i)]

DailyTexts ==
    {sample_btc_daily,
     TextOf("ohlc", Hourly(6, 500000, 1000)),
     <<Noise>> \o TextOf("ohlc", Hourly(7, 500000, -1000)) \o <<Noise>>,
     TextOf("ohlc", Rewound(7, 500000, 0)),
     TextOf("ohlc", Gapped(8, 500000, 1000)),
     TextOf("ohlc", Hourly(7, 0, 1000)),
     [sample_btc_daily EXCEPT ![3].close = BadTok]}

DominanceTexts ==
    {sample_btc_dominance,
     TextOf("dom", Hourly(7, 500, -5)),
     TextOf("dom", Hourly(8, 500, 0)) \o <<Noise>>,
     TextOf("dom", Hourly(6, 500, 5)) \o sample_btc_daily,
     TextOf("dom", Gapped(7, 500, 5)),
     [sample_btc_dominance EXCEPT ![2].ts = BadTok]}

WeeklyTexts ==
    {sample_btc_weekly,
     TextOf("ohlc", Hourly(8, 480000, 1000)),
     TextOf("ohlc", Hourly(8, 480000, 2000)),
     TextOf("ohlc", Hourly(9, 480000, -2000)),
     TextOf("ohlc", Hourly(7, 0, 1000)),
     TextOf("ohlc", Hourly(6, 480000, 1000))}

Texts(script_name) ==
    IF script_name = Scripts[1] THEN DailyTexts
    ELSE IF script_name = Scripts[2] THEN DominanceTexts
    ELSE WeeklyTexts

RunReturnsZero ==
    /\ InLoop
    /\ \E output \in Texts(es.script_name) : RunReturnsZeroWith(output)

-----------------------------------------------------------------------------
(* main, one action per statement.  pc is the statement and, for the three *)
(* stages that run once per series, which series (1 daily, 2 dominance,    *)
(* 3 weekly).                                                              *)

Kinds == <<"daily", "dominance", "weekly">>

Fetching == <<"Fetching BTC daily data...", "Fetching BTC dominance data...",
              "Fetching BTC weekly data...">>

Printed(prefix, text) == [prefix |-> prefix, text |-> text]

\* The exception as main's handlers see it, with the statement that raised it.
Thrown(r, at) == [kind |-> "raise", exception |-> r.exception, message |-> r.message,
                  detail |-> r.detail, at |-> at]

After(stage, k, next) == IF k < 3 THEN At(stage, k + 1) ELSE At(next, 1)

\* print("Fetching ..."); execute_script(...) is entered.
StartFetch ==
    /\ pc.stage = "fetch" /\ es = None
    /\ stdout' = Append(stdout, Printed(Fetching[pc.k], ""))
    /\ es' = Frame(Scripts[pc.k], DEFAULT_MAX_ATTEMPTS)
    /\ UNCHANGED <<pc, runs, outputs, data, signals, exc, stderr, exit_status, call, ret>>

\* execute_script returned: the assignment of its output.
FetchReturns ==
    /\ pc.stage = "fetch" /\ es # None /\ es.state = "returned"
    /\ outputs' = [outputs EXCEPT ![Kinds[pc.k]] = es.result]
    /\ es' = None
    /\ pc' = After("fetch", pc.k, "parse")
    /\ UNCHANGED <<runs, data, signals, exc, stdout, stderr, exit_status, call, ret>>

\* A slip: the failure is swallowed and main goes on to the next provider.
FetchRaises_continues ==
    /\ pc.stage = "fetch" /\ es # None /\ es.state = "raised"
    /\ outputs' = [outputs EXCEPT ![Kinds[pc.k]] = <<>>]
    /\ es' = None
    /\ pc' = After("fetch", pc.k, "parse")
    /\ UNCHANGED <<runs, data, signals, exc, stdout, stderr, exit_status, call, ret>>

\* execute_script raised: the RuntimeError reaches main's try.
FetchRaises ==
    /\ pc.stage = "fetch" /\ es # None /\ es.state = "raised"
    /\ exc' = [kind |-> "raise", exception |-> es.result.exception,
               message |-> es.result.message, detail |-> es.result.detail,
               at |-> pc, last_error |-> es.result.last_error]
    /\ es' = None
    /\ pc' = At("except", 0)
    /\ UNCHANGED <<runs, outputs, data, signals, stdout, stderr, exit_status, call, ret>>

\* Lines 245-247: which parser reads which output.
parser(k, output) ==
    IF k = 2 THEN parse_btc_dominance(output) ELSE parse_btc_data(output)

Parse ==
    /\ pc.stage = "parse"
    /\ LET r == parser(pc.k, outputs[Kinds[pc.k]])
       IN  IF r.kind = "raise"
           THEN /\ exc' = Thrown(r, pc)
                /\ pc' = At("except", 0)
                /\ UNCHANGED data
           ELSE /\ data' = [data EXCEPT ![Kinds[pc.k]] = r.value]
                /\ pc' = After("parse", pc.k, "validate")
                /\ UNCHANGED exc
    /\ UNCHANGED <<es, runs, outputs, signals, stdout, stderr, exit_status, call, ret>>

\* Lines 250-252: every call leaves max_gap_hours at its default.
max_gap_hours(k) == DEFAULT_MAX_GAP_HOURS

Validate ==
    /\ pc.stage = "validate"
    /\ LET r == validate_timestamp_continuity(data[Kinds[pc.k]], max_gap_hours(pc.k))
       IN  IF r.kind = "raise"
           THEN /\ exc' = Thrown(r, pc)
                /\ pc' = At("except", 0)
           ELSE /\ pc' = After("validate", pc.k, "classify")
                /\ UNCHANGED exc
    /\ UNCHANGED <<es, runs, outputs, data, signals, stdout, stderr, exit_status, call, ret>>

Classify ==
    /\ pc.stage = "classify"
    /\ LET r == decide(data.daily, data.dominance, data.weekly)
       IN  IF r.kind = "raise"
           THEN /\ exc' = Thrown(r, pc)
                /\ pc' = At("except", 0)
                /\ UNCHANGED signals
           ELSE /\ signals' = [decided |-> TRUE, value |-> r.value]
                /\ pc' = At("report", 1)
                /\ UNCHANGED exc
    /\ UNCHANGED <<es, runs, outputs, data, stdout, stderr, exit_status, call, ret>>

Glyph(change) == IF GreaterThan(change, 0) THEN "up" ELSE "down"

\* Lines 264-277, then main returns and the script ends with status 0.
Report ==
    /\ pc.stage = "report"
    /\ LET v == signals.value
       IN  stdout' = stdout \o
            <<Printed("[current_time]", ""),
              Printed("BTC 7h Trend:", <<Glyph(v.btc_change), v.btc_trend.value>>),
              Printed("BTC.D 7h Trend:", <<Glyph(v.btc_d_change), v.btc_d_trend.value>>),
              Printed("HWC Status:", v.hwc_status.value),
              Printed("RECOMMENDATION:", v.recommendation),
              Printed("RISK CONTEXT:",
                      get_risk_context(v.btc_trend, v.btc_d_trend, v.hwc_status)),
              Printed("CONFIDENCE:",
                      get_confidence_score(v.btc_trend, v.btc_d_trend, v.hwc_status))>>
    /\ exit_status' = 0
    /\ pc' = At("exit", 0)
    /\ UNCHANGED <<es, runs, outputs, data, signals, exc, stderr, call, ret>>

Tagged(e) ==
    Contains(e.message, "INCOMPLETE_DATA") \/ Contains(e.message, "TIMESTAMP_DISCONTINUITY")

\* except ValueError, tagged: print ERROR, sys.exit(1).
ExceptValueErrorTagged ==
    /\ pc.stage = "except" /\ exc.exception = "ValueError" /\ Tagged(exc)
    /\ stdout' = Append(stdout, Printed("ERROR:", exc.message))
    /\ exit_status' = 1
    /\ pc' = At("exit", 0)
    /\ UNCHANGED <<es, runs, outputs, data, signals, exc, stderr, call, ret>>

\* except ValueError, untagged: raise.  An exception raised inside a handler is
\* not offered to the later handlers of the same try: it leaves main uncaught,
\* and the interpreter prints the traceback and exits with status 1.
ExceptValueErrorReraised ==
    /\ pc.stage = "except" /\ exc.exception = "ValueError" /\ ~Tagged(exc)
    /\ stderr' = Append(stderr, Printed("Traceback (most recent call last):", exc.message))
    /\ exit_status' = 1
    /\ pc' = At("exit", 0)
    /\ UNCHANGED <<es, runs, outputs, data, signals, exc, stdout, call, ret>>

\* except RuntimeError: print ERROR, sys.exit(1).
ExceptRuntimeError ==
    /\ pc.stage = "except" /\ exc.exception = "RuntimeError"
    /\ stdout' = Append(stdout, Printed("ERROR:", exc.message))
    /\ exit_status' = 1
    /\ pc' = At("exit", 0)
    /\ UNCHANGED <<es, runs, outputs, data, signals, exc, stderr, call, ret>>

\* except Exception: print "Unexpected error", sys.exit(1).
ExceptException ==
    /\ pc.stage = "except" /\ exc.exception \notin {"ValueError", "RuntimeError"}
    /\ stdout' = Append(stdout, Printed("Unexpected error:", exc.message))
    /\ exit_status' = 1
    /\ pc' = At("exit", 0)
    /\ UNCHANGED <<es, runs, outputs, data, signals, exc, stderr, call, ret>>

Init == pc = At("fetch", 1) /\ es = None /\ NoMainState /\ call = None /\ ret = None

Next ==
    \/ StartFetch
    \/ RunReturnsZero
    \/ RunReturnsNonZero
    \/ RunTimesOut
    \/ RunRaises
    \/ AttemptsExhausted
    \/ FetchReturns
    \/ FetchRaises
    \/ Parse
    \/ Validate
    \/ Classify
    \/ Report
    \/ ExceptValueErrorTagged
    \/ ExceptValueErrorReraised
    \/ ExceptRuntimeError
    \/ ExceptException

Spec == Init /\ [][Next]_vars

\* execute_script called on its own with any max_attempts.
InitExec ==
    /\ pc = At("unit", 0)
    /\ NoMainState
    /\ call = None /\ ret = None
    /\ \E i \in 1..3, m \in 0..MaxAttempts : es = Frame(Scripts[i], m)

NextExec ==
    \/ RunReturnsZero
    \/ RunReturnsNonZero
    \/ RunTimesOut
    \/ RunRaises
    \/ AttemptsExhausted

SpecExec == InitExec /\ [][NextExec]_vars

-----------------------------------------------------------------------------
(* Claims about the decision matrix and the confidence score.              *)

\* C1: every one of the 27 keys (daily, dominance, wave) is found in
\* DECISION_MATRIX and looks up to a non-empty recommendation; the default
\* of the lookup is not used.
C1_MatrixComplete ==
    Called("lookup") =>
        /\ call.args \in DOMAIN DECISION_MATRIX
        /\ ret.value.found
        /\ ret.value.recommendation # ""
        /\ ret.value.recommendation = DECISION_MATRIX[call.args]

C1_Witness ==
    /\ Called("lookup")
    /\ call.args = <<Trend_NEUTRAL, Trend_NEUTRAL, HWC_NEUTRAL>>
    /\ ret.value.found
    /\ ret.value.recommendation = "MARKET_INDECISIVE"

\* C6: for every combination of daily, dominance and wave states the
\* confidence score lies in the closed interval [50, 95].
C6_ConfidenceBounds ==
    Called("get_confidence_score") =>
        /\ ret.value \in Int
        /\ 50 <= ret.value /\ ret.value <= 95

C6_Witness ==
    /\ Called("get_confidence_score")
    /\ call.args = <<Trend_BULLISH, Trend_NEUTRAL, HWC_NEUTRAL>>
    /\ ret.value = 50

\* The score the specification describes: states are compared by label.
SpecifiedConfidence(daily, dominance, wave) ==
    LET A == IF daily.value = dominance.value /\ dominance.value = wave.value THEN 20
             ELSE IF \/ daily.value = dominance.value
                     \/ daily.value = wave.value
                     \/ dominance.value = wave.value THEN 10
             ELSE 0
        N == IF "Neutral" \in {daily.value, dominance.value, wave.value} THEN 15 ELSE 0
    IN  Max(50, Min(95, 65 + A - N))

\* C7: the confidence score is clamp(65 + A - N, 50, 95), A = 20 when the
\* three states carry the same label, else 10 when any two of them do, else
\* 0, and N = 15 when any state is Neutral.
C7_ConfidenceFormula ==
    Called("get_confidence_score") =>
        ret.value = SpecifiedConfidence(call.args[1], call.args[2], call.args[3])

-----------------------------------------------------------------------------
(* Claims about classification and validation.                             *)

IsIncompleteData(r) ==
    r.kind = "raise" /\ r.exception = "ValueError" /\ Contains(r.message, "INCOMPLETE_DATA")

IsTimestampDiscontinuity(r) ==
    r.kind = "raise" /\ r.exception = "ValueError"
    /\ Contains(r.message, "TIMESTAMP_DISCONTINUITY")

\* C2: the samples of test_analyzer classify as Bullish (daily, short
\* window, +0.5/-0.5), Bullish (dominance, short window) and Neutral (weekly,
\* full window, +2.0/-2.0), and the key (Bullish, Bullish, Neutral) looks up to
\* "Moderate BTC buy (Medium risk)".
C2_Scenario ==
    (/\ Called("decide")
     /\ call.args = <<parse_btc_data(sample_btc_daily).value,
                      parse_btc_dominance(sample_btc_dominance).value,
                      parse_btc_data(sample_btc_weekly).value>>)
    => /\ ret.kind = "return"
       /\ ret.value.btc_trend = Trend_BULLISH
       /\ ret.value.btc_d_trend = Trend_BULLISH
       /\ ret.value.hwc_status = HWC_NEUTRAL
       /\ ret.value.found
       /\ ret.value.recommendation = "Moderate BTC buy (Medium risk)"

C2_Witness ==
    /\ Called("decide")
    /\ Len(call.args[1]) = 8 /\ call.args[1][1].open = 500000 /\ call.args[1][8].close = 508000
    /\ Len(call.args[2]) = 8 /\ call.args[2][1].open = 485 /\ call.args[2][8].close = 505
    /\ Len(call.args[3]) = 8 /\ call.args[3][1].open = 480000 /\ call.args[3][8].close = 488000
    /\ call.args[3][2].ts - call.args[3][1].ts = DAY
    /\ ret.kind = "return"
    /\ ret.value.recommendation = "Moderate BTC buy (Medium risk)"

\* change > t, change < t and change = t for a change whose reference open is
\* positive, t in tenths of a percent.
ChangeAbove(c, t) == c.num * 10 > t * c.den

ChangeBelow(c, t) == c.num * 10 < t * c.den

ChangeEquals(c, t) == c.num * 10 = t * c.den

ClassifierReturned ==
    call.fn \in Classifiers /\ ret # None /\ ret.kind = "return"

StrictRule(c, label, bullish, bearish) ==
    /\ label = "Bullish" <=> ChangeAbove(c, bullish)
    /\ label = "Bearish" <=> (~ChangeAbove(c, bullish) /\ ChangeBelow(c, bearish))
    /\ label = "Neutral" <=> (~ChangeAbove(c, bullish) /\ ~ChangeBelow(c, bearish))

\* C3 as stated: for any thresholds passed per call the state is Bullish
\* exactly when change > bullish, Bearish exactly when it is not and change
\* < bearish, Neutral otherwise; and a change equal to either threshold is
\* Neutral.
C3_AsStated ==
    ClassifierReturned =>
        /\ StrictRule(ret.value.change, ret.value.state.value, call.args[2], call.args[3])
        /\ (\/ ChangeEquals(ret.value.change, call.args[2])
            \/ ChangeEquals(ret.value.change, call.args[3]))
           => ret.value.state.value = "Neutral"

\* C3 (amended): the strict rule holds for any thresholds passed per call;
\* a change equal to either threshold is Neutral when bearish <= bullish.
C3_StrictThresholds ==
    ClassifierReturned =>
        /\ StrictRule(ret.value.change, ret.value.state.value, call.args[2], call.args[3])
        /\ (/\ call.args[3] <= call.args[2]
            /\ \/ ChangeEquals(ret.value.change, call.args[2])
               \/ ChangeEquals(ret.value.change, call.args[3]))
           => ret.value.state.value = "Neutral"

C3_Witness ==
    /\ ClassifierReturned
    /\ call.fn = "calculate_trend"
    /\ call.args[2] = TREND_BULLISH_THRESHOLD /\ call.args[3] = TREND_BEARISH_THRESHOLD
    /\ ChangeEquals(ret.value.change, TREND_BULLISH_THRESHOLD)
    /\ ret.value.state = Trend_NEUTRAL

ShortSeriesCall(fns) ==
    call.fn \in fns /\ ret # None /\ Len(call.args[1]) < 7

\* C4 as stated: a series of fewer than 7 points fed to a classifier or to
\* the validator raises IncompleteData.
C4_AsStated ==
    ShortSeriesCall(Classifiers \cup {"validate_timestamp_continuity"})
        => IsIncompleteData(ret)

\* C4 (amended): a series of fewer than 7 points fed to a classifier raises
\* IncompleteData and yields no trend state; the validator has no minimum
\* length: on such a series it returns silently or raises
\* TimestampDiscontinuity, never IncompleteData.
C4_MinimumLength ==
    /\ ShortSeriesCall(Classifiers) => IsIncompleteData(ret)
    /\ ShortSeriesCall({"validate_timestamp_continuity"})
        => /\ ~IsIncompleteData(ret)
           /\ ret = Return(None) \/ IsTimestampDiscontinuity(ret)

C4_Witness ==
    /\ ShortSeriesCall({"validate_timestamp_continuity"})
    /\ Len(call.args[1]) = 6
    /\ ret = Return(None)

GapOver(series, hours) ==
    \E i \in 1..(Len(series) - 1) : series[i + 1].ts - series[i].ts > hours * 3600

\* C5: the validator raises TimestampDiscontinuity exactly when some pair of
\* consecutive points is more than max_gap_hours hours apart (a gap equal to
\* the ceiling passes), and otherwise returns silently.
C5_GapDetection ==
    Called("validate_timestamp_continuity") =>
        /\ IsTimestampDiscontinuity(ret) <=> GapOver(call.args[1], call.args[2])
        /\ ~GapOver(call.args[1], call.args[2]) => ret = Return(None)

C5_Witness ==
    /\ Called("validate_timestamp_continuity")
    /\ call.args[2] = 24
    /\ Len(call.args[1]) = 7
    /\ \A i \in 1..6 : call.args[1][i + 1].ts - call.args[1][i].ts = 24 * 3600
    /\ ret = Return(None)

-----------------------------------------------------------------------------
(* Claims about execute_script and main.                                   *)

AllFailed == \A i \in 1..Len(runs) : ~runs[i].ok

\* C8: execute_script runs the script at most max_attempts times, one run
\* after the other; it returns the output of the first run that exits with
\* status 0 and runs nothing after it; when max_attempts runs have failed it
\* raises RuntimeError carrying the error of the last run.
C8_RetryContract ==
    es # None =>
        /\ Len(runs) <= es.max_attempts
        /\ \A i \in 1..(Len(runs) - 1) : ~runs[i].ok
        /\ es.state = "loop" => (AllFailed /\ es.attempts = Len(runs))
        /\ es.state = "returned" =>
            /\ runs # <<>> /\ runs[Len(runs)].ok
            /\ es.result = runs[Len(runs)].stdout
        /\ es.state = "raised" =>
            /\ Len(runs) = es.max_attempts /\ AllFailed
            /\ es.result.exception = "RuntimeError"
            /\ runs # <<>> => es.result.last_error = runs[Len(runs)].error
            /\ runs = <<>> => es.result.last_error = None

C8_Witness ==
    /\ es # None /\ es.state = "raised" /\ es.max_attempts = 3
    /\ Len(runs) = 3
    /\ runs[1].error # runs[3].error
    /\ es.result.last_error = runs[3].error
    /\ es.result.last_error.kind = "timeout"

HasLine(prefix) == \E i \in 1..Len(stdout) : stdout[i].prefix = prefix

ReportLines == {"RECOMMENDATION:", "RISK CONTEXT:", "CONFIDENCE:"}

\* C9: a run that hits any fatal condition prints an ERROR: line, exits with
\* status 1 and has printed no RECOMMENDATION, RISK CONTEXT or CONFIDENCE
\* line; a run exits with status 0 only after the full report.
C9_FatalRunsPrintError ==
    /\ (exc # None /\ pc.stage = "exit") =>
        /\ exit_status = 1
        /\ HasLine("ERROR:")
        /\ \A l \in ReportLines : ~HasLine(l)
    /\ exit_status = 0 => (exc = None /\ \A l \in ReportLines : HasLine(l))

\* What holds of every fatal condition: status 1 and no report line; the
\* ERROR: line is printed for RuntimeError and for the tagged ValueErrors.
FatalRunsPrintNoReport ==
    /\ (exc # None /\ pc.stage = "exit") =>
        /\ exit_status = 1
        /\ \A l \in ReportLines : ~HasLine(l)
        /\ HasLine("ERROR:") <=>
            (exc.exception = "RuntimeError" \/ (exc.exception = "ValueError" /\ Tagged(exc)))
    /\ exit_status = 0 => (exc = None /\ \A l \in ReportLines : HasLine(l))

Validated(k) ==
    \/ pc.stage \in {"classify", "report"}
    \/ pc.stage = "exit" /\ exc = None
    \/ pc.stage = "validate" /\ pc.k > k
    \/ exc # None /\ exc.at.stage = "validate" /\ exc.at.k > k
    \/ exc # None /\ exc.at.stage = "classify"

Rejected(k) == exc # None /\ exc.at = At("validate", k)

\* C10: the daily and dominance series are validated against a 1-hour
\* ceiling and the weekly series against a 24-hour ceiling: a series is
\* rejected exactly when one of its gaps exceeds its own ceiling, so a weekly
\* series spaced 24 hours apart passes and reaches classification.
C10_CeilingPerKind ==
    /\ Rejected(1) => GapOver(data.daily, 1)
    /\ Rejected(2) => GapOver(data.dominance, 1)
    /\ Rejected(3) => GapOver(data.weekly, 24)
    /\ Validated(1) => ~GapOver(data.daily, 1)
    /\ Validated(2) => ~GapOver(data.dominance, 1)
    /\ Validated(3) => ~GapOver(data.weekly, 24)

-----------------------------------------------------------------------------
(* Order of the timestamps of a validated series.                          *)

NonDecreasing(series) ==
    \A i \in 1..(Len(series) - 1) : series[i].ts <= series[i + 1].ts

\* C11: every series that passed validate_timestamp_continuity and went on
\* to classification has non-decreasing timestamps: a series in which a point
\* is earlier than its predecessor is rejected by the validator.
C11_ValidatedSeriesOrdered ==
    /\ Validated(1) => NonDecreasing(data.daily)
    /\ Validated(2) => NonDecreasing(data.dominance)
    /\ Validated(3) => NonDecreasing(data.weekly)

-----------------------------------------------------------------------------
(* The order in which main invokes the providers, read off the history of  *)
(* subprocess runs.                                                        *)

\* The number of runs among the first n that returned status 0.
RECURSIVE Returned(_)
Returned(n) == IF n = 0 THEN 0 ELSE Returned(n - 1) + (IF runs[n].ok THEN 1 ELSE 0)

\* The number of failed runs of the provider that run j belongs to, up to j.
RECURSIVE FailedBefore(_)
FailedBefore(j) == IF j = 0 \/ runs[j].ok THEN 0 ELSE 1 + FailedBefore(j - 1)

FetchingDone ==
    \/ pc.stage \in {"parse", "validate", "classify", "report"}
    \/ pc.stage \in {"except", "exit"} /\ exc # None /\ exc.at.stage # "fetch"
    \/ pc.stage = "exit" /\ exc = None

Sequential(order) ==
    \* every run is an attempt of the provider that follows, in the order,
    \* those that have returned successfully
    /\ \A j \in 1..Len(runs) :
          /\ Returned(j - 1) < Len(order)
          /\ runs[j].script_name = order[Returned(j - 1) + 1]
    \* a provider that has used up its attempts is the last one invoked
    /\ \A j \in 1..Len(runs) :
          /\ FailedBefore(j) <= DEFAULT_MAX_ATTEMPTS
          /\ FailedBefore(j) = DEFAULT_MAX_ATTEMPTS => j = Len(runs)
    \* one execute_script call at a time, for the provider whose turn it is
    /\ es # None =>
          /\ pc.stage = "fetch"
          /\ es.script_name = order[pc.k]
          /\ pc.k = Returned(Len(runs)) + (IF es.state = "returned" THEN 0 ELSE 1)
    \* the later stages start when every provider of the order has returned
    /\ FetchingDone => Returned(Len(runs)) = Len(order)
    /\ (pc.stage = "fetch" /\ es = None) => Returned(Len(runs)) = pc.k - 1

\* The order with a fourth, monthly provider after the weekly one.
StatedOrder == Scripts \o <<"get_btc_candles_monthly.py">>

\* C12 as stated: the providers are invoked one after another in the order
\* daily, dominance, weekly, monthly.
C12_AsStated == Sequential(StatedOrder)

\* C12: the providers are invoked one after another in the fixed order daily,
\* dominance, weekly, and there is no fourth: the first attempt of a provider
\* starts only after the previous provider returned successfully, and once a
\* provider has used up its attempts no later provider is invoked.
C12_ThreeProvidersInOrder == Sequential(Scripts)

\* Daily returned at its second attempt, dominance failed twice, and the run
\* ended without a run of the weekly provider.
C12_Witness ==
    /\ pc.stage = "exit" /\ Len(runs) = 4
    /\ ~runs[1].ok /\ runs[2].ok /\ ~runs[3].ok /\ ~runs[4].ok
    /\ runs[4].script_name = "get_btc_dominance.py"

-----------------------------------------------------------------------------
(* The parsers on texts of up to MaxLines lines.  Each line is a record of *)
(* the parser's own format, a record of the other format, a record of the  *)
(* parser's format with a token that does not convert, or two records of   *)
(* the parser's format on one line.                                        *)

MaxLines == 8

Shapes == {"match", "other", "bad", "double"}

Parsers == {"parse_btc_data", "parse_btc_dominance"}

FormatOf(fn) == IF fn = "parse_btc_data" THEN "ohlc" ELSE "dom"

OtherFormat(fmt) == IF fmt = "ohlc" THEN "dom" ELSE "ohlc"

LineOf(shape, fmt, i) ==
    LET ts == Tok(SECONDS_PER_HOUR * i)
        open == Tok(1000 + 10 * i)
        close == Tok(1005 + 10 * i)
    IN  CASE shape = "match" -> Line(fmt, ts, open, close)
          [] shape = "other" -> Line(OtherFormat(fmt), ts, open, close)
          [] shape = "bad" -> IF i % 2 = 1 THEN Line(fmt, BadTok, open, close)
                                           ELSE Line(fmt, ts, open, BadTok)
          [] shape = "double" ->
                [Line(fmt, ts, open, close) EXCEPT
                    !.more = <<Groups(Tok(SECONDS_PER_HOUR * i + 1800),
                                      Tok(2000 + 10 * i), Tok(2005 + 10 * i))>>]

CallParseBtcData ==
    /\ call.fn = "parse_btc_data" /\ Pending
    /\ ret' = parse_btc_data(call.args[1])
    /\ UNCHANGED <<mainVars, call>>

CallParseBtcDominance ==
    /\ call.fn = "parse_btc_dominance" /\ Pending
    /\ ret' = parse_btc_dominance(call.args[1])
    /\ UNCHANGED <<mainVars, call>>

InitParse ==
    /\ MainIdle
    /\ ret = None
    /\ \E fn \in Parsers, n \in 0..MaxLines :
          \E shape \in [1..n -> Shapes] :
              call = [fn |-> fn,
                      args |-> <<[i \in 1..n |-> LineOf(shape[i], FormatOf(fn), i)]>>]

NextParse == CallParseBtcData \/ CallParseBtcDominance

SpecParse == InitParse /\ [][NextParse]_vars

MatchingLines(fn, output) == SelectSeq(output, LAMBDA l : l.fmt = FormatOf(fn))

ParserContract(fn) ==
    Called(fn) =>
        LET lines == MatchingLines(fn, call.args[1])
        IN  IF Len(lines) < MIN_POINTS
            THEN IsIncompleteData(ret)
            ELSE /\ ret.kind = "return"
                 /\ Len(ret.value) = Len(lines)
                 /\ \A i \in 1..Len(lines) :
                       ret.value[i] = Point(lines[i].ts.v, lines[i].open.v, lines[i].close.v)

\* C13: both parsers return exactly the lines that match their pattern, one
\* data point per matching line, in input order; lines that do not match are
\* skipped; the parser raises INCOMPLETE_DATA exactly when fewer than 7 lines
\* match and otherwise returns a series as long as the number of matching lines.
C13_ParserContract == ParserContract("parse_btc_data") /\ ParserContract("parse_btc_dominance")

\* What holds: on a text whose matching lines hold one record each, with
\* tokens that convert, the parsers do as C13 says.
WellFormed(lines) ==
    \A i \in 1..Len(lines) :
        lines[i].more = <<>> /\ lines[i].ts.valid /\ lines[i].open.valid /\ lines[i].close.valid

ParserContractOnWellFormedText ==
    \A fn \in Parsers :
        WellFormed(MatchingLines(fn, call.args[1])) => ParserContract(fn)

-----------------------------------------------------------------------------
(* The lookback window of the two classifiers.                             *)

\* The point at a position counted from 0, as the claim counts.
AtPosition(series, p) == series[p + 1]

\* (lastClose - refOpen) / refOpen * 100 as a rational.
PercentChange(refOpen, lastClose) == [num |-> (lastClose - refOpen) * 100, den |-> refOpen]

UsesReference(ref, last) ==
    IF ref.open = 0
    THEN ret.kind = "raise" /\ ret.exception = "ZeroDivisionError"
    ELSE ret.kind = "return" /\ ret.value.change = PercentChange(ref.open, last.close)

\* C14: for a series of n >= 7 points calculate_trend computes the change
\* from the open of the point at position n-7 and the close of the last point,
\* calculate_hwc_trend from the open of the first point and the close of the
\* last, both as (lastClose - refOpen) / refOpen * 100 (a division by zero
\* when refOpen is 0); on exactly 7 points both use the first point.
C14_LookbackWindows ==
    (call.fn \in Classifiers /\ ret # None /\ Len(call.args[1]) >= MIN_POINTS) =>
        LET series == call.args[1]
            n == Len(series)
            last == AtPosition(series, n - 1)
        IN  /\ call.fn = "calculate_trend" => UsesReference(AtPosition(series, n - 7), last)
            /\ call.fn = "calculate_hwc_trend" => UsesReference(AtPosition(series, 0), last)
            /\ n = 7 => UsesReference(AtPosition(series, 0), last)

\* calculate_trend has returned on 8 points whose first three opens differ.
C14_Witness ==
    /\ Called("calculate_trend") /\ ret.kind = "return"
    /\ Len(call.args[1]) = 8
    /\ call.args[1][1].open # call.args[1][2].open
    /\ call.args[1][2].open # call.args[1][3].open

-----------------------------------------------------------------------------
(* The risk narrative.                                                     *)

PatternTriples ==
    {<<Trend_BULLISH, Trend_BULLISH, HWC_BULLISH>>,
     <<Trend_BULLISH, Trend_BEARISH, HWC_BULLISH>>,
     <<Trend_BULLISH, Trend_BEARISH, HWC_BEARISH>>,
     <<Trend_BEARISH, Trend_BULLISH, HWC_BULLISH>>,
     <<Trend_BEARISH, Trend_BULLISH, HWC_BEARISH>>}

HasNeutral(key) == \E i \in 1..3 : key[i].value = "Neutral"

\* C15: get_risk_context returns a narrative of its own for each of the five
\* triples (Bullish, Bullish, Bullish), (Bullish, Bearish, Bullish), (Bullish,
\* Bearish, Bearish), (Bearish, Bullish, Bullish), (Bearish, Bullish, Bearish),
\* different from the narrative of every other triple, and "Standard market
\* conditions - monitor closely" for each of the other 22 triples, among them
\* every triple with a Neutral state.
C15_RiskNarratives ==
    /\ Cardinality(DecisionKeys \ PatternTriples) = 22
    /\ \A key \in DecisionKeys : HasNeutral(key) => key \notin PatternTriples
    /\ Called("get_risk_context") =>
          IF call.args \in PatternTriples
          THEN \A other \in DecisionKeys \ {call.args} :
                  ret.value # get_risk_context(other[1], other[2], other[3])
          ELSE ret.value = "Standard market conditions - monitor closely"

\* The narrative of (Bullish, Bearish, Bearish) has been returned.
C15_Witness ==
    /\ Called("get_risk_context")
    /\ call.args = <<Trend_BULLISH, Trend_BEARISH, HWC_BEARISH>>
    /\ ret.value = "High risk - Altcoin market weakness"

-----------------------------------------------------------------------------
(* The order of main's stages and the error a run ends with.               *)

Ended == pc.stage = "exit"

AllFetched == Returned(Len(runs)) = Len(Scripts)

Exhausted == FailedBefore(Len(runs)) = DEFAULT_MAX_ATTEMPTS

\* The output of series k has fewer than 7 lines of its pattern.
Short(k) ==
    Len(SelectSeq(outputs[Kinds[k]],
                  LAMBDA l : l.fmt = (IF k = 2 THEN "dom" ELSE "ohlc"))) < MIN_POINTS

NothingParsed == data = [daily |-> <<>>, dominance |-> <<>>, weekly |-> <<>>]

StagesInOrder ==
    \* nothing is parsed before every provider has returned
    /\ (pc.stage = "fetch" \/ (exc # None /\ exc.at.stage = "fetch")) => NothingParsed
    \* no provider runs once the three have returned
    /\ \A j \in 1..Len(runs) : Returned(j - 1) < Len(Scripts)
    \* validation and classification come after the parsing of all three
    /\ (pc.stage \in {"validate", "classify", "report"}
         \/ (exc # None /\ exc.at.stage \in {"validate", "classify"})
         \/ (Ended /\ exc = None)) => \A k \in 1..3 : ~Short(k)
    \* a provider out of attempts: ExecutionFailure, whatever the others returned
    /\ (Ended /\ Exhausted) =>
          /\ exc # None /\ exc.exception = "RuntimeError" /\ exc.at.stage = "fetch"
          /\ HasLine("ERROR:") /\ NothingParsed

\* C16: main runs all fetches, then parses all series, then validates all
\* series, then classifies and looks up, and aborts at the first failure: a
\* provider out of attempts ends the run with the RuntimeError of
\* execute_script whatever the other providers returned; a series with fewer
\* than 7 matching lines ends it with INCOMPLETE_DATA even when an earlier
\* series has a timestamp gap; and no provider runs again after a parsing or
\* validation failure.
C16_StageOrder ==
    /\ StagesInOrder
    /\ (Ended /\ AllFetched /\ \E k \in 1..3 : Short(k)) =>
          /\ exc # None /\ IsIncompleteData(exc) /\ exc.at.stage = "parse"
          /\ HasLine("ERROR:")

\* What holds: a run whose providers all returned ends with the exception of
\* the first series, in the order daily, dominance, weekly, that its parser
\* refuses, whether for INCOMPLETE_DATA or for a token that does not convert,
\* and whatever gaps the series before it have.
Refused(k) == parser(k, outputs[Kinds[k]]).kind = "raise"

StageOrderUpToConversion ==
    /\ StagesInOrder
    /\ (Ended /\ AllFetched /\ \E k \in 1..3 : Refused(k)) =>
          LET first == CHOOSE k \in 1..3 : Refused(k) /\ \A j \in 1..(k - 1) : ~Refused(j)
          IN  /\ exc # None /\ exc.at = At("parse", first)
              /\ exc.message = parser(first, outputs[Kinds[first]]).message

\* A run ended with INCOMPLETE_DATA for the dominance series although the
\* daily series, parsed before it, has a gap of more than an hour.
IncompleteDataDespiteEarlierGap ==
    /\ Ended /\ exc # None /\ exc.at = At("parse", 2) /\ IsIncompleteData(exc)
    /\ GapOver(data.daily, 1)

====
